---- MODULE Spec2Model ----
(***************************************************************************)
(* The GitLab reporting scripts of this repository as one state machine:   *)
(*   get_projects.py                          (project lister)             *)
(*   user_activity.py                         (push counts)                *)
(*   user_activity_commit.py                  (push counts + event rows)   *)
(*   user_activity_last_commit.py             (counts + last push)         *)
(*   user_activity_last_commit_by_email.py    (same, e-mail filtered)      *)
(* The server is the environment: every request is answered by a page or   *)
(* by a transport/status error, chosen from the response sets below.       *)
(***************************************************************************)
EXTENDS Integers, Sequences, FiniteSets, TLC

\* ------------------------------------------------------------------ bounds
\* records the server holds for a listing endpoint (projects, users)
MaxRecords == 2
\* users the server holds in a complete run
MaxUsers == 2
\* full event pages the server serves to one user before it ends the listing
MaxFullPages == 1
\* length of a short (non-full) event page
MaxShortLen == 2

\* ------------------------------------------------------- program constants
EVENTS_PER_PAGE == 100
USERS_PER_PAGE == 100

\* the scripts
GetProjects == "get_projects"
UserActivity == "user_activity"
UserActivityCommit == "user_activity_commit"
UserActivityLastCommit == "user_activity_last_commit"
UserActivityByEmail == "user_activity_last_commit_by_email"
UserScripts == {UserActivity, UserActivityCommit, UserActivityLastCommit, UserActivityByEmail}
LastScripts == {UserActivityLastCommit, UserActivityByEmail}
Scripts == {GetProjects} \cup UserScripts

\* ------------------------------------------------------------- JSON values
\* A JSON scalar as Python sees it: an int, a str, None (a null, or what
\* dict.get(key) gives for an absent key) or "missing" (the key is absent and
\* the lookup has its own default).
JInt(n) == [t |-> "int", n |-> n, s |-> ""]
JStr(s) == [t |-> "str", n |-> 0, s |-> s]
JNone == [t |-> "none", n |-> 0, s |-> ""]
JMissing == [t |-> "missing", n |-> 0, s |-> ""]

\* dict.get(key): an absent key reads as None
Get(v) == IF v.t = "missing" THEN JNone ELSE v
\* dict.get(key, default)
GetDefault(v, d) == IF v.t = "missing" THEN d ELSE v
\* Truthy taking every value but None for true
TruthyNotNone(v) == v.t \notin {"none", "missing"}

\* Python truthiness of a scalar: None, 0 and "" are falsy
Truthy(v) == CASE v.t = "int" -> v.n # 0
               [] v.t = "str" -> v.s # ""
               [] OTHER -> FALSE

NA == JStr("N/A")

\* ------------------------------------------------------------ text (e-mail)
\* A string whose characters matter is a sequence of one-character strings.
UpperCs == <<"A","B","C","D","E","F","G","H","I","J","K","L","M","N","O","P","Q","R","S","T","U","V","W","X","Y","Z">>
LowerCs == <<"a","b","c","d","e","f","g","h","i","j","k","l","m","n","o","p","q","r","s","t","u","v","w","x","y","z">>

\* str.lower() on one character
LowerChar(c) == IF \E i \in 1..26 : UpperCs[i] = c
                THEN LowerCs[CHOOSE i \in 1..26 : UpperCs[i] = c]
                ELSE c
\* str.lower()
Lower(cs) == [i \in 1..Len(cs) |-> LowerChar(cs[i])]
\* sub in s
Contains(sub, cs) == \E i \in 0..(Len(cs) - Len(sub)) : SubSeq(cs, i + 1, i + Len(sub)) = sub

EMAIL_FILTER_SUBSTRING == <<"k","e","s","t","r","l">>

\* the e-mail field of a user record: absent, null or a string
EmailStr(cs) == [t |-> "str", cs |-> cs]
EmailNull == [t |-> "null", cs |-> <<>>]
EmailMissing == [t |-> "missing", cs |-> <<>>]

\* --------------------------------------------------------- response records
\* all sequences over S of length lo..hi
SeqsOf(S, lo, hi) == UNION {[1..k -> S] : k \in lo..hi}

\* A project record of GET /projects: a JSON object, or an element that is no
\* object ("bad": project.get raises AttributeError).
Project(id, name) == [kind |-> "obj", id |-> id, path_with_namespace |-> name]
BadProject == [kind |-> "bad", id |-> JMissing, path_with_namespace |-> JMissing]
ProjectPool == { Project(JInt(11), JStr("grp/a")),
                 Project(JInt(12), JStr("grp/b")),
                 Project(JInt(0), JStr("grp/zero")),
                 Project(JMissing, JStr("grp/noid")),
                 BadProject }

\* A user record of GET /users
User(id, username, email) == [id |-> id, username |-> username, email |-> email]
Alice == User(JInt(1), JStr("alice"), EmailStr(<<"d","e","v","@","K","E","S","T","R","L",".","i","o">>))
Bob == User(JInt(2), JStr("bob"), EmailStr(<<"b","o","b","@","o","t","h","e","r",".","i","o">>))
\* a second account with the username of Alice
Alice2 == User(JInt(3), JStr("alice"), EmailStr(<<"a","@","k","e","s","t","r","l",".","i","o">>))
Dan == User(JInt(4), JStr("dan"), EmailMissing)
Eve == User(JInt(5), JStr("eve"), EmailNull)
Fay == User(JInt(6), JStr("fay"), EmailStr(<<>>))
UserPool == {Alice, Bob, Alice2, Dan, Eve, Fay}
SmallUserPool == {Alice, Bob, Alice2}

\* What a request returns: a page (a JSON list), or a RequestException
\* (transport failure, or a failure status turned into one by raise_for_status).
Ok(p) == [status |-> "ok", page |-> p]
Err == [status |-> "error", page |-> <<>>]

\* user_list in __main__: not assigned yet, None, or a list
Unset == [t |-> "unset", l |-> <<>>]
None == [t |-> "none", l |-> <<>>]
List(l) == [t |-> "list", l |-> l]

NoReq == [ep |-> "none", ui |-> 0, page |-> 0, status |-> "ok"]
Req(ep, ui, page, status) == [ep |-> ep, ui |-> ui, page |-> page, status |-> status]

\* -------------------------------------------------------------------- state
VARIABLES
  script,             \* the script that runs
  GITLAB_URL,         \* os.getenv("GITLAB_URL") is a non-empty string
  PRIVATE_TOKEN,      \* os.getenv("GITLAB_PRIVATE_TOKEN") is a non-empty string
  pc,                 \* position of the control flow
  page,               \* page of the running while loop
  all_project_ids,    \* get_all_project_ids: the running list
  all_users,          \* get_all_users: the running list
  user_list,          \* __main__: what get_all_users returned
  last_req,           \* the latest HTTP request issued and how it ended
  requested,          \* every HTTP request issued, in order: endpoint, user, page
  tick,               \* parity of the number of HTTP requests issued
  served,             \* the pages the server returned to the running loop
  printed,            \* what __main__ printed: messages and totals
  ui,                 \* __main__: position of the for loop in user_list
  push_count,         \* the event reducer: relevant events counted
  last_push_datetime, \* the event reducer: latest push seen
  last_push_commit_sha, \* the event reducer: commit of the latest push
  all_events,         \* get_user_push_events: rows collected
  ret,                \* what the event reducer returned to __main__
  results,            \* results / results_details (dict), summary_results (list)
  detailed_activity,  \* user_activity_commit: every collected row
  total_pushes,       \* __main__: running total
  returned,           \* per user of user_list, in order: the count __main__ got
  held                \* the events the server holds for a user, where a
                      \* specification fixes them (<<>> where it does not)

\* what is fixed from the start of a run: the script, its settings, the server
cfgVars == <<script, GITLAB_URL, PRIVATE_TOKEN, held>>
listVars == <<all_project_ids, all_users>>
reducerVars == <<push_count, last_push_datetime, last_push_commit_sha, all_events>>
mainVars == <<ui, ret, results, detailed_activity, total_pushes, returned>>
reqVars == <<last_req, requested, tick>>
vars == <<script, GITLAB_URL, PRIVATE_TOKEN, pc, page, all_project_ids, all_users,
          user_list, last_req, requested, tick, served, printed, ui, push_count, last_push_datetime,
          last_push_commit_sha, all_events, ret, results, detailed_activity,
          total_pushes, returned, held>>

\* the requests a run can issue: the pages of a listing and its last request,
\* then for every user the full pages and one more
MaxRequested ==
  (IF MaxRecords > MaxUsers THEN MaxRecords ELSE MaxUsers) + 1 + MaxUsers * (MaxFullPages + 1)
\* the log with one more request (the log keeps the first MaxRequested)
Logged(req) == IF Len(requested) < MaxRequested THEN Append(requested, req) ELSE requested

NothingPrinted == [msg |-> "", contributors |-> -1, total |-> -1, table |-> <<>>]

\* an aware datetime: wall-clock hours and the UTC offset in hours
DateTime(wall, off) == [wall |-> wall, off |-> off]
\* datetime.datetime(1, 1, 1, tzinfo=datetime.timezone.utc): hour 0 of the model
MinDateTime == DateTime(0, 0)
NoRet == [count |-> 0, last_date |-> NA, last_commit |-> NA, events |-> <<>>]

InitState ==
  /\ page = 0
  /\ all_project_ids = <<>>
  /\ all_users = <<>>
  /\ last_req = NoReq
  /\ requested = <<>>
  /\ tick = 0
  /\ served = <<>>
  /\ printed = NothingPrinted
  /\ push_count = 0
  /\ last_push_datetime = MinDateTime
  /\ last_push_commit_sha = NA
  /\ all_events = <<>>
  /\ ret = NoRet
  /\ results = <<>>
  /\ detailed_activity = <<>>
  /\ total_pushes = 0
  /\ returned = <<>>
\* number of records in the pages served so far
RECURSIVE Total(_)
Total(pages) == IF pages = <<>> THEN 0 ELSE Len(Head(pages)) + Total(Tail(pages))

\* ConfigMissing asking for both settings to be absent
ConfigMissingBoth(url, token) == ~url /\ ~token

\* if not GITLAB_URL or not PRIVATE_TOKEN:  (None and "" are falsy)
ConfigMissing(url, token) == ~url \/ ~token

\* __main__: the configuration check, then the call of the listing function
Main ==
  /\ pc = "main"
  /\ IF ConfigMissing(GITLAB_URL, PRIVATE_TOKEN)
     THEN /\ pc' = "done"
          /\ printed' = [printed EXCEPT !.msg = "config_error"]
          /\ UNCHANGED <<page, all_project_ids, all_users>>
     ELSE /\ pc' = IF script = GetProjects THEN "get_all_project_ids" ELSE "get_all_users"
          /\ page' = 1
          /\ all_project_ids' = <<>>
          /\ all_users' = <<>>
          /\ UNCHANGED printed
  /\ UNCHANGED <<cfgVars, user_list, reqVars, served, reducerVars, mainVars>>

\* ------------------------------------------------------------ get_projects
\* a Python for loop over a list, st the state its body updates: the body runs on
\* items[lo], ..., items[hi] in this order, and an exception raised by the body
\* ends the loop (the range is split in halves to keep the evaluation shallow)
RECURSIVE ForEach(_, _, _, _, _)
ForEach(Body(_, _), items, lo, hi, st) ==
  IF st.raised \/ lo > hi THEN st
  ELSE IF lo = hi THEN Body(items[lo], st)
  ELSE LET mid == (lo + hi) \div 2 IN
       ForEach(Body, items, mid + 1, hi, ForEach(Body, items, lo, mid, st))

\* the body of the for loop of get_all_project_ids: appends (id, name) for a
\* truthy id; an element that is no object raises, which ends the loop
ProjectStep(project, st) ==
  IF project.kind = "bad" THEN [st EXCEPT !.raised = TRUE]
  ELSE LET project_id == Get(project.id)
           project_name == Get(project.path_with_namespace)
       IN IF Truthy(project_id)
          THEN [st EXCEPT !.ids = Append(@, [id |-> project_id, name |-> project_name])]
          ELSE st
ScanProjects(projects, acc) ==
  ForEach(ProjectStep, projects, 1, Len(projects), [ids |-> acc, raised |-> FALSE])

\* EndOfListing with the short-page exit of the event loops
EndOfListingOrShort(records) == Len(records) < USERS_PER_PAGE

\* if not projects: break  /  if not users: break  -- the page that ends a listing
EndOfListing(records) == records = <<>>

\* ProjectsOnError discarding the running list
ProjectsOnErrorDiscard(ids) == <<>>

\* get_all_project_ids, except RequestException: break -- the running list is
\* what the function returns
ProjectsOnError(ids) == ids

\* one iteration of the while loop of get_all_project_ids
ProjectsPage(pool, max) ==
  /\ pc = "get_all_project_ids"
  /\ \E resp \in {Err} \cup {Ok(p) : p \in SeqsOf(pool, 0, max - Total(served))} :
       /\ last_req' = Req("projects", 0, page, resp.status)
       /\ requested' = Logged([ep |-> "projects", ui |-> 0, page |-> page])
       /\ tick' = 1 - tick
       /\ IF resp.status = "error"
          THEN \* except RequestException: break
               /\ pc' = "projects_report"
               /\ all_project_ids' = ProjectsOnError(all_project_ids)
               /\ UNCHANGED <<page, served>>
          ELSE /\ served' = Append(served, resp.page)
               /\ IF EndOfListing(resp.page)
                  THEN /\ pc' = "projects_report"
                       /\ UNCHANGED <<page, all_project_ids>>
                  ELSE LET r == ScanProjects(resp.page, all_project_ids) IN
                       /\ all_project_ids' = r.ids
                       /\ IF r.raised
                          THEN \* except Exception: break
                               /\ pc' = "projects_report"
                               /\ UNCHANGED page
                          ELSE /\ page' = page + 1
                               /\ UNCHANGED pc
  /\ UNCHANGED <<cfgVars, all_users, user_list, printed, reducerVars, mainVars>>

\* __main__ of get_projects.py after the listing returned
ProjectsReport ==
  /\ pc = "projects_report"
  /\ pc' = "done"
  /\ printed' = IF all_project_ids # <<>>
                THEN [printed EXCEPT !.msg = "projects", !.total = Len(all_project_ids),
                                     !.table = all_project_ids]
                ELSE [printed EXCEPT !.msg = "no_projects"]
  /\ UNCHANGED <<cfgVars, page, listVars, user_list, reqVars, served, reducerVars,
                 mainVars>>

\* ----------------------------------------------------------- get_all_users
\* EMAIL_FILTER_SUBSTRING.lower() in user_email.lower()
EmailMatches(user_email) == Contains(Lower(EMAIL_FILTER_SUBSTRING), Lower(user_email.cs))

\* the body of the for loop of get_all_users in user_activity.py,
\* user_activity_commit.py and user_activity_last_commit.py
UserStep(user, st) ==
  [st EXCEPT !.users = Append(@, [id |-> Get(user.id), username |-> Get(user.username),
                                  email |-> EmailMissing])]
ScanUsers(users, acc) ==
  ForEach(UserStep, users, 1, Len(users), [users |-> acc, raised |-> FALSE])

\* the body of the for loop of get_all_users in
\* user_activity_last_commit_by_email.py: user.get('email', '') is None for a
\* null e-mail, and None.lower() raises AttributeError
UserByEmailStep(user, st) ==
  LET user_email == IF user.email.t = "missing" THEN EmailStr(<<>>) ELSE user.email IN
  IF user_email.t = "null" THEN [st EXCEPT !.raised = TRUE]
  ELSE IF EmailMatches(user_email)
       THEN [st EXCEPT !.users = Append(@, [id |-> Get(user.id),
                                            username |-> Get(user.username),
                                            email |-> user_email])]
       ELSE st
ScanUsersByEmail(users, acc) ==
  ForEach(UserByEmailStep, users, 1, Len(users), [users |-> acc, raised |-> FALSE])

\* the records of a list of pages, in order
RECURSIVE Flatten(_)
Flatten(pages) == IF pages = <<>> THEN <<>> ELSE Head(pages) \o Flatten(Tail(pages))

\* the server lists every account once: no id of the page was listed before
FreshUsers(p) ==
  LET listed == Flatten(served) \o p IN
  \A i, j \in 1..Len(listed) : i # j => listed[i].id # listed[j].id

\* UsersOnError returning the running list
UsersOnErrorPartial(users) == List(users)

\* what get_all_users returns when a request fails
UsersOnError(users) == None

\* one iteration of the while loop of get_all_users
UsersPage(pool, max) ==
  /\ pc = "get_all_users"
  /\ \E resp \in {Err} \cup {Ok(p) : p \in {q \in SeqsOf(pool, 0, max - Total(served)) :
                                                FreshUsers(q)}} :
       /\ last_req' = Req("users", 0, page, resp.status)
       /\ requested' = Logged([ep |-> "users", ui |-> 0, page |-> page])
       /\ tick' = 1 - tick
       /\ IF resp.status = "error"
          THEN \* except RequestException: return None
               /\ user_list' = UsersOnError(all_users)
               /\ pc' = "main_check"
               /\ UNCHANGED <<page, all_users, served>>
          ELSE /\ served' = Append(served, resp.page)
               /\ IF EndOfListing(resp.page)
                  THEN \* break; return all_users
                       /\ user_list' = List(all_users)
                       /\ pc' = "main_check"
                       /\ UNCHANGED <<page, all_users>>
                  ELSE LET r == IF script = UserActivityByEmail
                                THEN ScanUsersByEmail(resp.page, all_users)
                                ELSE ScanUsers(resp.page, all_users) IN
                       /\ all_users' = r.users
                       /\ UNCHANGED user_list
                       /\ IF r.raised
                          THEN \* AttributeError is no RequestException: the script dies
                               /\ pc' = "crashed"
                               /\ UNCHANGED page
                          ELSE /\ page' = page + 1
                               /\ UNCHANGED pc
  /\ UNCHANGED <<cfgVars, all_project_ids, printed, reducerVars, mainVars>>

\* __main__: if user_list:  (None and the empty list are falsy)
MainCheck ==
  /\ pc = "main_check"
  /\ IF user_list.t = "list" /\ user_list.l # <<>>
     THEN /\ pc' = "for_user"
          /\ ui' = 1
          /\ results' = <<>>
          /\ total_pushes' = 0
          /\ detailed_activity' = <<>>
     ELSE /\ pc' = "done"
          /\ UNCHANGED <<ui, results, total_pushes, detailed_activity>>
  /\ UNCHANGED <<cfgVars, page, listVars, user_list, reqVars, served, printed,
                 reducerVars, ret, returned>>

\* ------------------------------------------------------------------ events
\* created_at of an event: absent, or an ISO-8601 string, kept as its wall-clock
\* hour and its zone suffix ("Z", "+00:00", "+01:00")
Ts(wall, suffix) == [t |-> "str", wall |-> wall, suffix |-> suffix]
NoTs == [t |-> "missing", wall |-> 0, suffix |-> ""]
\* push_data of an event: absent, null, or an object
PushData(action, commit_to) == [t |-> "obj", action |-> action, commit_to |-> commit_to]
PushDataNull == [t |-> "null", action |-> JMissing, commit_to |-> JMissing]
PushDataMissing == [t |-> "missing", action |-> JMissing, commit_to |-> JMissing]
\* {} : the default of event.get('push_data', {})
EmptyObj == PushData(JMissing, JMissing)
Event(action_name, created_at, push_data) ==
  [action_name |-> action_name, created_at |-> created_at, push_data |-> push_data]

PushedTo == JStr("pushed to")
PushA == Event(PushedTo, Ts(5, "Z"), PushData(JStr("pushed"), JStr("c1")))
PushB == Event(PushedTo, Ts(7, "Z"), PushData(JStr("pushed"), JStr("c2")))
\* the same instant as PushB, written in another zone
PushC == Event(PushedTo, Ts(8, "+01:00"), PushData(JStr("created"), JStr("c3")))
\* returned by the coarse action=pushed query, yet no push
Opened == Event(JStr("opened"), Ts(9, "Z"), PushData(JStr("pushed"), JStr("c9")))
NoAction == Event(JMissing, Ts(9, "Z"), PushData(JStr("pushed"), JStr("c8")))
PushNoData == Event(PushedTo, Ts(6, "Z"), PushDataMissing)
PushNullData == Event(PushedTo, Ts(6, "Z"), PushDataNull)
PushNoDate == Event(PushedTo, NoTs, PushData(JStr("pushed"), JStr("c4")))
EventPool == {PushA, PushB, PushC, Opened, NoAction, PushNoData, PushNullData, PushNoDate}

\* a page of EVENTS_PER_PAGE events: head, then fill repeated
FullPage(head, fill) == head \o [i \in 1..(EVENTS_PER_PAGE - Len(head)) |-> fill]
ShortPages == SeqsOf(EventPool, 0, MaxShortLen)
FullPages == {FullPage(<<e>>, Opened) : e \in {PushB, PushC, Opened}}
               \cup {FullPage(<<>>, PushA)}
\* the pages of a complete run: well-formed records only
SmallShortPages == {<<>>, <<PushA>>, <<Opened>>, <<PushB, PushA>>}
SmallFullPages == {FullPage(<<PushA>>, Opened)}

\* Relevant trusting the coarse action=pushed filter of the query
RelevantCoarse(event) == TRUE

\* event.get('action_name') == 'pushed to'
Relevant(event) == Get(event.action_name) = PushedTo

\* created_at.replace('Z', '+00:00')
ReplaceZ(suffix) == IF suffix = "Z" THEN "+00:00" ELSE suffix
\* datetime.fromisoformat: the wall clock and the offset the suffix names
FromIsoFormat(wall, suffix) == DateTime(wall, IF suffix = "+01:00" THEN 1 ELSE 0)
\* the instant of an aware datetime, in hours
Instant(dt) == dt.wall - dt.off
\* After with >= in place of >
AfterOrEqual(a, b) == Instant(a) >= Instant(b)

\* a > b of two aware datetimes
After(a, b) == Instant(a) > Instant(b)
\* strftime('%Y-%m-%d %H:%M:%S'): the wall clock, the offset is not printed
Strftime(dt) == [t |-> "date", n |-> dt.wall, s |-> ""]

\* the locals of the event reducer as one record
Locals(count, dt, sha, events, raised) ==
  [push_count |-> count, last_push_datetime |-> dt, last_push_commit_sha |-> sha,
   all_events |-> events, raised |-> raised]

\* user_activity.py: the body of the for loop of get_user_push_count
CountStep(event, st) ==
  IF Relevant(event) THEN [st EXCEPT !.push_count = @ + 1] ELSE st

\* the last-push scripts: the body of the for loop of get_user_push_count
LastStep(event, st) ==
  IF ~Relevant(event) THEN st
  ELSE LET counted == [st EXCEPT !.push_count = @ + 1] IN
       IF event.created_at.t = "missing"
       THEN \* event['created_at']: KeyError
            [counted EXCEPT !.raised = TRUE]
       ELSE LET current_event_datetime ==
                  FromIsoFormat(event.created_at.wall, ReplaceZ(event.created_at.suffix))
            IN IF After(current_event_datetime, st.last_push_datetime)
               THEN LET push_data == GetDefault(event.push_data, EmptyObj) IN
                    IF push_data.t = "null"
                    THEN \* None.get: AttributeError
                         [counted EXCEPT !.raised = TRUE,
                                         !.last_push_datetime = current_event_datetime]
                    ELSE [counted EXCEPT
                            !.last_push_datetime = current_event_datetime,
                            !.last_push_commit_sha = GetDefault(push_data.commit_to, NA)]
               ELSE counted

\* user_activity_commit.py: the body of the for loop of get_user_push_events
\* (st.username is the parameter of the function)
EventStep(event, st) ==
  IF ~Relevant(event) THEN st
  ELSE LET push_data == GetDefault(event.push_data, EmptyObj) IN
       IF push_data.t = "null"
       THEN \* None.get: AttributeError
            [st EXCEPT !.raised = TRUE]
       ELSE [st EXCEPT !.all_events =
               Append(@, [Username |-> st.username,
                          ActivityName |-> GetDefault(push_data.action, Get(event.action_name)),
                          EventDate |-> event.created_at])]

\* the for loop of the running script over one page of events, from the
\* locals now
ScanFrom(events, username, now) ==
  CASE script = UserActivity -> ForEach(CountStep, events, 1, Len(events), now)
    [] script = UserActivityCommit ->
         LET r == ForEach(EventStep, events, 1, Len(events),
                          [all_events |-> now.all_events, raised |-> FALSE,
                           username |-> username])
         IN Locals(now.push_count, now.last_push_datetime, now.last_push_commit_sha,
                   r.all_events, r.raised)
    [] OTHER -> ForEach(LastStep, events, 1, Len(events), now)

\* the for loop of the running script over one page of events
ScanPage(events, username) ==
  ScanFrom(events, username,
           Locals(push_count, last_push_datetime, last_push_commit_sha, all_events, FALSE))

\* IsShort without the early exit
IsShortNever(events) == FALSE

\* IsShort taking every page for the last one
IsShortAlways(events) == TRUE

\* if len(events) < EVENTS_PER_PAGE: break
IsShort(events) == Len(events) < EVENTS_PER_PAGE

\* BreakOnError staying in the loop: the page is requested again
BreakOnErrorNever(status) == FALSE

\* except RequestException: ... break  -- a failed request ends the page loop
BreakOnError(status) == status = "error"

\* OnEventsError forgetting what the pages before gave
OnEventsErrorReset(st) == [st EXCEPT !.push_count = 0, !.all_events = <<>>,
                                     !.last_push_datetime = MinDateTime,
                                     !.last_push_commit_sha = NA]

\* except RequestException: break  -- the locals are what the pages before gave
OnEventsError(st) == st

\* the return statement of the event reducer of the running script
ReturnValue(st) ==
  CASE script = UserActivity ->
         [count |-> st.push_count, last_date |-> NA, last_commit |-> NA, events |-> <<>>]
    [] script = UserActivityCommit ->
         [count |-> 0, last_date |-> NA, last_commit |-> NA, events |-> st.all_events]
    [] OTHER ->
         [count |-> st.push_count,
          last_date |-> IF st.push_count > 0 THEN Strftime(st.last_push_datetime) ELSE NA,
          last_commit |-> st.last_push_commit_sha,
          events |-> <<>>]

\* count in __main__: the returned count, or len(events) of the returned rows
CountOf(r) == IF script = UserActivityCommit THEN Len(r.events) ELSE r.count

\* full pages among the pages served
FullCount(pages) == Cardinality({i \in 1..Len(pages) : Len(pages[i]) >= EVENTS_PER_PAGE})

\* __main__: the for loop takes the next user and calls the event reducer
ForUser ==
  /\ pc = "for_user"
  /\ IF ui <= Len(user_list.l)
     THEN /\ pc' = "events"
          /\ page' = 1
          /\ push_count' = 0
          /\ last_push_datetime' = MinDateTime
          /\ last_push_commit_sha' = NA
          /\ all_events' = <<>>
          /\ served' = <<>>
     ELSE /\ pc' = "report"
          /\ UNCHANGED <<page, reducerVars, served>>
  /\ UNCHANGED <<cfgVars, listVars, user_list, reqVars, printed, mainVars>>

\* one iteration of the while loop of get_user_push_count / get_user_push_events,
\* and the return when the loop breaks
EventsPage(shorts, fulls) ==
  /\ pc = "events"
  /\ \E resp \in {Err} \cup {Ok(p) : p \in shorts
                              \cup (IF FullCount(served) < MaxFullPages THEN fulls ELSE {})} :
       LET user == user_list.l[ui]
           now == Locals(push_count, last_push_datetime, last_push_commit_sha,
                         all_events, FALSE)
           st == IF resp.status = "error" THEN OnEventsError(now)
                 ELSE ScanPage(resp.page, user.username)
           stop == \/ BreakOnError(resp.status)
                   \/ resp.status = "ok" /\ resp.page = <<>>
                   \/ resp.status = "ok" /\ IsShort(resp.page)
       IN /\ last_req' = Req("events", ui, page, resp.status)
          /\ requested' = Logged([ep |-> "events", ui |-> ui, page |-> page])
          /\ tick' = 1 - tick
          /\ served' = IF resp.status = "ok" THEN Append(served, resp.page) ELSE served
          /\ push_count' = st.push_count
          /\ last_push_datetime' = st.last_push_datetime
          /\ last_push_commit_sha' = st.last_push_commit_sha
          /\ all_events' = st.all_events
          /\ page' = IF resp.status = "ok" /\ resp.page # <<>> /\ ~st.raised
                     THEN page + 1 ELSE page
          /\ IF st.raised
             THEN \* KeyError / AttributeError is no RequestException: the script dies
                  /\ pc' = "crashed"
                  /\ UNCHANGED ret
             ELSE IF stop
                  THEN /\ pc' = "store"
                       /\ ret' = ReturnValue(st)
                  ELSE UNCHANGED <<pc, ret>>
  /\ UNCHANGED <<cfgVars, listVars, user_list, printed, ui, results, detailed_activity,
                 total_pushes, returned>>

\* ------------------------------------------------------------------ results
Entry(username, email, count, last_date, last_commit) ==
  [key |-> username, email |-> email, count |-> count, last_date |-> last_date,
   last_commit |-> last_commit]

\* d[k] = v on a dict, which keeps insertion order: a key that is present
\* keeps its place and gets the new value
DictSet(d, k, v) ==
  IF \E i \in 1..Len(d) : d[i].key = k
  THEN [i \in 1..Len(d) |-> IF d[i].key = k THEN v ELSE d[i]]
  ELSE Append(d, v)

\* how __main__ stores a user's summary: results[username] = ... on the dict
\* of user_activity.py and the last-push scripts, summary_results.append(...)
\* on the list of user_activity_commit.py
StoreResult(d, k, v) == IF script = UserActivityCommit THEN Append(d, v) ELSE DictSet(d, k, v)

\* Stored without the filter
StoredAlways(count) == TRUE

\* if count > 0:
Stored(count) == count > 0

\* __main__: the body of the for loop after the event reducer returned
Store ==
  /\ pc = "store"
  /\ LET user == user_list.l[ui]
         count == CountOf(ret)
     IN IF Stored(count)
        THEN /\ results' = StoreResult(results, user.username,
                             Entry(user.username, user.email, count, ret.last_date,
                                   ret.last_commit))
             /\ total_pushes' = total_pushes + count
             /\ detailed_activity' = IF script = UserActivityCommit
                                     THEN detailed_activity \o ret.events
                                     ELSE detailed_activity
        ELSE UNCHANGED <<results, total_pushes, detailed_activity>>
  /\ returned' = Append(returned, CountOf(ret))
  /\ ui' = ui + 1
  /\ pc' = "for_user"
  /\ UNCHANGED <<cfgVars, page, listVars, user_list, reqVars, served, printed,
                 reducerVars, ret>>

\* InsertDesc placing an entry before the entries of its count
RECURSIVE InsertDescTiesFirst(_, _)
InsertDescTiesFirst(sorted, x) ==
  IF sorted = <<>> THEN <<x>>
  ELSE IF Head(sorted).count > x.count
       THEN <<Head(sorted)>> \o InsertDescTiesFirst(Tail(sorted), x)
       ELSE <<x>> \o sorted

\* sorted(..., key=count, reverse=True): stable, equal counts keep their order
RECURSIVE InsertDesc(_, _)
InsertDesc(sorted, x) ==
  IF sorted = <<>> THEN <<x>>
  ELSE IF Head(sorted).count >= x.count
       THEN <<Head(sorted)>> \o InsertDesc(Tail(sorted), x)
       ELSE <<x>> \o sorted
RECURSIVE SortDesc(_, _)
SortDesc(items, sorted) ==
  IF items = <<>> THEN sorted ELSE SortDesc(Tail(items), InsertDesc(sorted, Head(items)))

\* __main__: the summary after the for loop
Report ==
  /\ pc = "report"
  /\ pc' = "done"
  /\ printed' = [msg |-> "summary", table |-> SortDesc(results, <<>>),
                 contributors |-> Len(results), total |-> total_pushes]
  /\ UNCHANGED <<cfgVars, page, listVars, user_list, reqVars, served, reducerVars,
                 mainVars>>

\* ----------------------------------------------------------- specifications
\* A complete run of any of the five scripts, the server holding well-formed
\* records.
Init ==
  /\ script \in Scripts
  /\ GITLAB_URL \in BOOLEAN
  /\ PRIVATE_TOKEN \in BOOLEAN
  /\ pc = "main"
  /\ user_list = Unset
  /\ ui = 0
  /\ InitState
  /\ held = <<>>

Next ==
  \/ Main
  \/ ProjectsPage(ProjectPool, MaxRecords)
  \/ ProjectsReport
  \/ UsersPage(SmallUserPool, MaxUsers)
  \/ MainCheck
  \/ ForUser
  \/ EventsPage(SmallShortPages, SmallFullPages)
  \/ Store
  \/ Report

Spec == Init /\ [][Next]_vars

\* The complete run as the interpreter executes it: one thread, every statement
\* followed by the next, every request answered (by a page or by an exception).
\* The settings are present; the pages differ in length and in failing only.
InitLive ==
  /\ script \in Scripts
  /\ GITLAB_URL = TRUE
  /\ PRIVATE_TOKEN = TRUE
  /\ pc = "main"
  /\ user_list = Unset
  /\ ui = 0
  /\ InitState
  /\ held = <<>>

NextLive ==
  \/ Main
  \/ ProjectsPage({Project(JInt(11), JStr("grp/a")), BadProject}, MaxRecords)
  \/ ProjectsReport
  \/ UsersPage({Alice, Bob}, MaxUsers)
  \/ MainCheck
  \/ ForUser
  \/ EventsPage({<<>>, <<PushA>>}, {FullPage(<<>>, PushA)})
  \/ Store
  \/ Report

FairSpec == InitLive /\ [][NextLive]_vars /\ WF_vars(NextLive)

\* The listings alone (get_all_project_ids, get_all_users and the check of
\* __main__ that follows), over every shape of record.
InitList ==
  /\ script \in Scripts
  /\ GITLAB_URL = TRUE
  /\ PRIVATE_TOKEN = TRUE
  /\ pc = "main"
  /\ user_list = Unset
  /\ ui = 0
  /\ InitState
  /\ held = <<>>

NextList ==
  \/ Main
  \/ ProjectsPage(ProjectPool, MaxRecords)
  \/ ProjectsReport
  \/ UsersPage(UserPool, MaxRecords)
  \/ MainCheck

SpecList == InitList /\ [][NextList]_vars

\* The for loop of __main__ over a user list of one user, the events of every
\* shape: the state after get_all_users returned [alice].
ListedAlice == [id |-> Alice.id, username |-> Alice.username,
                email |-> IF script = UserActivityByEmail THEN Alice.email ELSE EmailMissing]
InitEvents ==
  /\ script \in UserScripts
  /\ GITLAB_URL = TRUE
  /\ PRIVATE_TOKEN = TRUE
  /\ pc = "for_user"
  /\ user_list = List(<<ListedAlice>>)
  /\ ui = 1
  /\ InitState
  /\ held = <<>>

NextEvents ==
  \/ ForUser
  \/ EventsPage(ShortPages, FullPages)
  \/ Store
  \/ Report

SpecEvents == InitEvents /\ [][NextEvents]_vars

\* The event fetch of one user against a server that holds a finite list of
\* events and serves it EVENTS_PER_PAGE at a time: page p of the list.
PageOf(list, p) ==
  SubSeq(list, (p - 1) * EVENTS_PER_PAGE + 1,
         IF p * EVENTS_PER_PAGE < Len(list) THEN p * EVENTS_PER_PAGE ELSE Len(list))

\* the lists held: full pages, then a tail shorter than a page
HeldFullPages == {FullPage(<<PushB>>, Opened), FullPage(<<>>, PushA)}
HeldTails == SeqsOf({PushA, PushC, Opened, PushNoData}, 0, MaxShortLen)
HeldLists == {Flatten(f) \o t : f \in SeqsOf(HeldFullPages, 0, MaxFullPages), t \in HeldTails}

InitPaged ==
  /\ script \in UserScripts
  /\ GITLAB_URL = TRUE
  /\ PRIVATE_TOKEN = TRUE
  /\ pc = "for_user"
  /\ user_list = List(<<ListedAlice>>)
  /\ ui = 1
  /\ InitState
  /\ held \in HeldLists

\* the page the server answers with (a request may still fail)
NextPaged ==
  \/ ForUser
  \/ EventsPage({pg \in {PageOf(held, page)} : Len(pg) < EVENTS_PER_PAGE},
                {pg \in {PageOf(held, page)} : Len(pg) >= EVENTS_PER_PAGE})
  \/ Store
  \/ Report

SpecPaged == InitPaged /\ [][NextPaged]_vars

\* ------------------------------------------------------------------ claims
\* positions <<p, i>> of the records of a list of pages
Positions(pages) == UNION {{<<p, i>> : i \in 1..Len(pages[p])} : p \in 1..Len(pages)}
RecordAt(pages, pos) == pages[pos[1]][pos[2]]
\* the events of the pages whose action_name is exactly "pushed to"
PushedIn(pages) ==
  {pos \in Positions(pages) : RecordAt(pages, pos).action_name = JStr("pushed to")}

EventsErrored == last_req.ep = "events" /\ last_req.status = "error"
UsersErrored == last_req.ep = "users" /\ last_req.status = "error"
ProjectsErrored == last_req.ep = "projects" /\ last_req.status = "error"

\* C1: when the request for page k of a user's events fails, the page loop of
\* that user has ended (the next request, if any, is page 1 of the next user),
\* the count handed to __main__ is the number of "pushed to" events of pages
\* 1..k-1, and the for loop of __main__ visits every later user.
C1_PerUserPartial ==
  EventsErrored =>
    /\ pc \in {"store", "for_user", "events", "report", "done"}
    /\ pc = "store" =>
         /\ ui = last_req.ui
         /\ page = last_req.page
         /\ Len(served) = last_req.page - 1
         /\ CountOf(ret) = Cardinality(PushedIn(served))
    /\ pc # "store" =>
         /\ ui = last_req.ui + 1
         /\ pc # "events" => returned[last_req.ui] = Cardinality(PushedIn(served))
    /\ pc = "events" => page = 1 /\ served = <<>>
    /\ pc \in {"report", "done"} => ui = Len(user_list.l) + 1

\* C1 witness: page 2 of the first user failed, the partial count of page 1 was
\* stored, and the loop is fetching the events of the second user
C1_Witness ==
  /\ EventsErrored /\ last_req.ui = 1 /\ last_req.page = 2
  /\ pc = "events" /\ ui = 2
  /\ returned = <<1>> /\ Len(results) = 1

\* C2 as stated: after an error at page k > 1 get_all_users returns the users
\* of pages 1..k-1 and __main__ processes them.
C2_PartialUsersReturned ==
  (UsersErrored /\ last_req.page > 1) =>
    /\ user_list = List(all_users)
    /\ pc \in {"main_check", "for_user"}

\* C2 amended: after an error at any page k get_all_users returns None, whatever
\* pages 1..k-1 appended, and __main__ processes no user and prints no summary.
C2_UsersDiscarded ==
  UsersErrored =>
    /\ user_list = None
    /\ pc \in {"main_check", "done"}
    /\ results = <<>> /\ returned = <<>> /\ printed = NothingPrinted

\* C2 witness: page 2 failed after page 1 had appended users, and the run is over
C2_Witness ==
  /\ UsersErrored /\ last_req.page = 2
  /\ all_users # <<>> /\ user_list = None
  /\ pc = "done"

\* the (id, name) pairs of the project records that carry an id other than 0
KeptOf(records) ==
  LET kept == SelectSeq(records, LAMBDA r : r.kind = "obj" /\ r.id.t = "int" /\ r.id.n # 0)
  IN [i \in 1..Len(kept) |-> [id |-> kept[i].id, name |-> kept[i].path_with_namespace]]

\* C3: when the request for page k of the projects fails, the loop has ended
\* with the page counter at k, and the list returned (and printed) is what
\* pages 1..k-1 appended: nothing removed, nothing added.
C3_ProjectsKeptOnError ==
  ProjectsErrored =>
    /\ pc \in {"projects_report", "done"}
    /\ page = last_req.page
    /\ Len(served) = last_req.page - 1
    /\ all_project_ids = KeptOf(Flatten(served))
    /\ (pc = "done" /\ all_project_ids # <<>>) => printed.table = all_project_ids

\* C3 witness: page 2 failed after page 1 had appended a project; run over
C3_Witness ==
  /\ ProjectsErrored /\ last_req.page = 2
  /\ all_project_ids # <<>>
  /\ pc = "done" /\ printed.msg = "projects"

\* C4: while the event loop of a user runs every page served so far was full;
\* when it ends without an error the last page served is the first empty or
\* short one, it was the last one requested, and its records were counted.
C4_StopAtShortPage ==
  /\ pc = "events" =>
       /\ page = Len(served) + 1
       /\ \A i \in 1..Len(served) : Len(served[i]) >= EVENTS_PER_PAGE
  /\ (pc = "store" /\ last_req.status = "ok") =>
       /\ served # <<>>
       /\ Len(served[Len(served)]) < EVENTS_PER_PAGE
       /\ \A i \in 1..(Len(served) - 1) : Len(served[i]) >= EVENTS_PER_PAGE
       /\ last_req.page = Len(served)
       /\ CountOf(ret) = Cardinality(PushedIn(served))

\* C4 witness: a full page, then a short page with a push that was counted
C4_Witness ==
  /\ pc = "store" /\ last_req.status = "ok"
  /\ Len(served) = 2
  /\ Len(served[2]) \in 1..(EVENTS_PER_PAGE - 1)
  /\ PushedIn(<<served[2]>>) # {}
  /\ CountOf(ret) > Cardinality(PushedIn(<<served[1]>>))

\* C5: the project and the user listing go on after a short page: while the
\* loop runs every page served was non-empty (and short), and the loop has ended
\* only after a failed request, after an empty page, or (projects) by an
\* exception of the loop body.
C5_ListingIgnoresShortPage ==
  /\ pc \in {"get_all_project_ids", "get_all_users"} =>
       /\ page = Len(served) + 1
       /\ \A i \in 1..Len(served) : served[i] # <<>>
  /\ (last_req.ep \in {"projects", "users"}
        /\ pc \notin {"get_all_project_ids", "get_all_users", "crashed"}) =>
       \/ last_req.status = "error"
       \/ /\ served # <<>>
          /\ served[Len(served)] = <<>>
          /\ last_req.page = Len(served)
       \/ /\ last_req.ep = "projects"
          /\ served # <<>>
          /\ \E i \in 1..Len(served[Len(served)]) : served[Len(served)][i].kind = "bad"

\* C5 witness: a user listing that went past a short first page to an empty page
C5_Witness ==
  /\ pc = "main_check" /\ last_req.ep = "users" /\ last_req.status = "ok"
  /\ Len(served) >= 2
  /\ served[1] # <<>> /\ Len(served[1]) < USERS_PER_PAGE
  /\ served[Len(served)] = <<>>
  /\ last_req.page = Len(served)

\* the commit an event names: push_data.commit_to, "N/A" where there is none
CommitOf(e) ==
  IF e.push_data.t = "obj" /\ e.push_data.commit_to.t = "str"
  THEN e.push_data.commit_to ELSE JStr("N/A")
\* the instant of a created_at string, in hours
InstantOf(e) == e.created_at.wall - (IF e.created_at.suffix = "+01:00" THEN 1 ELSE 0)
\* position a is scanned before position b
ScannedBefore(a, b) == a[1] < b[1] \/ (a[1] = b[1] /\ a[2] < b[2])

\* C6: at every point of a user's event loop, and at its return, the count is
\* the number of events served whose action_name is exactly "pushed to"; in the
\* last-push scripts the timestamp and commit kept are those of such an event
\* (the initial values when there is none).
C6_ExactActionName ==
  pc \in {"events", "store"} =>
    LET pushed == PushedIn(served)
        counted == IF script = UserActivityCommit THEN Len(all_events) ELSE push_count
    IN /\ counted = Cardinality(pushed)
       /\ pc = "store" => CountOf(ret) = Cardinality(pushed)
       /\ script \in LastScripts =>
            IF pushed = {}
            THEN last_push_datetime = MinDateTime /\ last_push_commit_sha = JStr("N/A")
            ELSE \E pos \in pushed :
                   /\ RecordAt(served, pos).created_at.wall = last_push_datetime.wall
                   /\ InstantOf(RecordAt(served, pos)) = Instant(last_push_datetime)
                   /\ CommitOf(RecordAt(served, pos)) = last_push_commit_sha

\* C6 witness: a last-push fetch returned after pages that mix pushes with
\* events of another action_name and of none
C6_Witness ==
  /\ pc = "store" /\ script \in LastScripts
  /\ CountOf(ret) > 0
  /\ \E pos \in Positions(served) : RecordAt(served, pos).action_name = JStr("opened")
  /\ \E pos \in Positions(served) : RecordAt(served, pos).action_name = JMissing
  /\ ret.last_date # JStr("N/A")

\* C7: the last-push scripts return the wall-clock time and the commit of the
\* first-scanned event among the "pushed to" events of the latest instant, and
\* ("N/A", "N/A") with count 0 when no such event was served.
C7_LastPushIsFirstMaximum ==
  (pc = "store" /\ script \in LastScripts) =>
    LET pushed == PushedIn(served) IN
    IF pushed = {}
    THEN ret.count = 0 /\ ret.last_commit = JStr("N/A") /\ ret.last_date = JStr("N/A")
    ELSE LET latest == {a \in pushed :
                          \A b \in pushed : InstantOf(RecordAt(served, b))
                                              <= InstantOf(RecordAt(served, a))}
             first == CHOOSE a \in latest : \A b \in latest : a = b \/ ScannedBefore(a, b)
         IN /\ ret.last_date = [t |-> "date", n |-> RecordAt(served, first).created_at.wall,
                                s |-> ""]
            /\ ret.last_commit = CommitOf(RecordAt(served, first))

\* C7 witness: two pushes of the same, latest instant with different commits,
\* then an earlier push; the commit of the first one was returned
C7_Witness ==
  /\ pc = "store" /\ script \in LastScripts
  /\ served = <<FullPage(<<PushC>>, Opened), <<PushB, PushA>>>>
  /\ ret.last_commit = JStr("c3")
  /\ ret.count = 3

\* a user record passes the filter: its e-mail is a string that contains the
\* filter substring, letter case ignored
Included(user) ==
  /\ user.email.t = "str"
  /\ \E i \in 0..(Len(user.email.cs) - Len(EMAIL_FILTER_SUBSTRING)) :
       \A k \in 1..Len(EMAIL_FILTER_SUBSTRING) :
         LowerChar(user.email.cs[i + k]) = LowerChar(EMAIL_FILTER_SUBSTRING[k])

\* C8: in the e-mail filtered script the users loaded are exactly the records
\* served whose e-mail contains the filter, and a record without an e-mail
\* (absent, null or empty) never stops the loading.
C8_EmailFilter ==
  (script = UserActivityByEmail /\ last_req.ep = "users" /\ last_req.status = "ok") =>
    /\ pc # "crashed"
    /\ LET kept == SelectSeq(Flatten(served), Included)
       IN all_users = [i \in 1..Len(kept) |->
                         [id |-> kept[i].id, username |-> kept[i].username,
                          email |-> kept[i].email]]

RECURSIVE SumCounts(_)
SumCounts(entries) ==
  IF entries = <<>> THEN 0 ELSE Head(entries).count + SumCounts(Tail(entries))

\* C9: the totals printed at the end of a run are the sum of the counts held in
\* the result collection and the number of fetched users (by id) with a count
\* above 0.
C9_PrintedTotals ==
  printed.msg = "summary" =>
    /\ printed.total = SumCounts(results)
    /\ printed.contributors =
         Cardinality({user_list.l[i].id : i \in {k \in 1..Len(returned) : returned[k] > 0}})

\* C10: every entry of the result collection belongs to a user whose fetch
\* returned that count, above 0; every user whose fetch returned a count above 0
\* has an entry under its username; the console table holds the entries of
\* the collection and no other.
C10_ZeroCountNotStored ==
  /\ \A j \in 1..Len(results) :
       /\ results[j].count > 0
       /\ \E i \in 1..Len(returned) :
            returned[i] = results[j].count /\ user_list.l[i].username = results[j].key
  /\ \A i \in 1..Len(returned) :
       returned[i] > 0 => \E j \in 1..Len(results) : results[j].key = user_list.l[i].username
  /\ printed.msg = "summary" =>
       /\ Len(printed.table) = Len(results)
       /\ {printed.table[j] : j \in 1..Len(printed.table)}
            = {results[j] : j \in 1..Len(results)}

\* C10 witness: two users fetched, one with count 0 and one above 0; the summary
\* printed one row
C10_Witness ==
  /\ printed.msg = "summary"
  /\ Len(returned) = 2
  /\ \E i \in 1..2 : returned[i] = 0
  /\ \E i \in 1..2 : returned[i] > 0
  /\ Len(printed.table) = 1

\* C11: the console table is the result collection reordered: the counts never
\* increase down the table, and two entries of the same count stand in the
\* order in which they entered the collection.
C11_StableDescending ==
  printed.msg = "summary" =>
    /\ Len(printed.table) = Len(results)
    /\ \E f \in [1..Len(results) -> 1..Len(results)] :
         /\ \A i, j \in 1..Len(results) : i # j => f[i] # f[j]
         /\ \A i \in 1..Len(results) : printed.table[i] = results[f[i]]
         /\ \A i, j \in 1..Len(results) :
              i < j => \/ results[f[i]].count > results[f[j]].count
                       \/ results[f[i]].count = results[f[j]].count /\ f[i] < f[j]

\* C11 witness: two users stored with the same count, printed in the order
\* they were stored
C11_Witness ==
  /\ printed.msg = "summary"
  /\ Len(results) = 2
  /\ results[1].count = results[2].count
  /\ results[1].key # results[2].key
  /\ printed.table = results

\* C11 second case: the user stored later has the higher count and is printed
\* first
C11_Reordered ==
  /\ printed.msg = "summary"
  /\ Len(results) = 2
  /\ results[1].count < results[2].count
  /\ printed.table = <<results[2], results[1]>>

\* C12: in a run whose base URL or access token is unset or empty no HTTP
\* request is issued and nothing is fetched, and the run ends with the
\* configuration error printed (and nothing else).
C12_NoRequestWithoutConfig ==
  (~GITLAB_URL \/ ~PRIVATE_TOKEN) =>
    /\ last_req = NoReq
    /\ served = <<>>
    /\ pc \in {"main", "done"}
    /\ pc = "done" => printed = [NothingPrinted EXCEPT !.msg = "config_error"]
    /\ user_list = Unset /\ returned = <<>>

\* C12 witness: a user script with a base URL and no token printed the error
\* and ended
C12_Witness ==
  /\ GITLAB_URL /\ ~PRIVATE_TOKEN
  /\ script \in UserScripts
  /\ pc = "done"
  /\ printed.msg = "config_error"

\* an event record the claim C13 speaks of: created_at absent, push_data absent
\* or null
Malformed(event) ==
  event.created_at.t = "missing" \/ event.push_data.t \in {"missing", "null"}

\* C13: a "pushed to" event whose created_at is absent, or whose push_data is
\* absent or null, never ends the run: the script does not die in the scan of
\* the page that holds it, and the fetch that returns has counted it.
C13_MalformedEventDefaulted ==
  (\E pos \in PushedIn(served) : Malformed(RecordAt(served, pos))) =>
    /\ pc # "crashed"
    /\ pc = "store" => CountOf(ret) = Cardinality(PushedIn(served))

\* the loop whose request a log entry is: the endpoint and the user
SameLoop(a, b) == a.ep = b.ep /\ a.ui = b.ui

\* C14: the log of requests starts at page 1, and every request is followed
\* either by the next page of the same loop or by page 1 of the next loop (the
\* events of user 1 after the user listing, the events of user u + 1 after those
\* of user u); so the pages of a loop are 1, 2, ..., k, each requested once, and
\* the loops do not interleave. A failed request is the last of its loop.
C14_SerialRequests ==
  LET n == Len(requested) IN
  /\ n > 0 =>
       /\ requested[1].page = 1
       /\ requested[n] = [ep |-> last_req.ep, ui |-> last_req.ui, page |-> last_req.page]
  /\ n = 0 => last_req = NoReq
  /\ \A i \in 1..(n - 1) :
       LET a == requested[i]
           b == requested[i + 1]
       IN \/ SameLoop(a, b) /\ b.page = a.page + 1
          \/ b.page = 1 /\ a.ep = "users" /\ b.ep = "events" /\ b.ui = 1
          \/ b.page = 1 /\ a.ep = "events" /\ b.ep = "events" /\ b.ui = a.ui + 1
  /\ \A i, j \in 1..n : (i < j /\ SameLoop(requested[i], requested[j])) =>
       requested[i].page < requested[j].page
  /\ last_req.status = "error" =>
       /\ pc \notin {"get_all_project_ids", "get_all_users"}
       /\ pc = "events" => ui = last_req.ui + 1 /\ page = 1

\* C14 witness: two pages of the first user's events, the second one empty or
\* failed, then two pages of the second user's events
C14_Witness ==
  /\ Len(requested) >= 5
  /\ \E i \in 1..(Len(requested) - 3) :
       /\ requested[i] = [ep |-> "events", ui |-> 1, page |-> 1]
       /\ requested[i + 1] = [ep |-> "events", ui |-> 1, page |-> 2]
       /\ requested[i + 2] = [ep |-> "events", ui |-> 2, page |-> 1]
       /\ requested[i + 3] = [ep |-> "events", ui |-> 2, page |-> 2]
  /\ returned # <<>> /\ returned[1] = 1
  /\ Len(results) = 1 /\ results[1].count = 1
  /\ last_req.status = "ok"

\* The fetch C15 compares with: the page loop of the running script with the
\* empty page as its only exit, run on the list from page p with the locals st;
\* requests is the number of pages it asks for.
RECURSIVE DrainUntilEmpty(_, _, _, _)
DrainUntilEmpty(list, username, p, st) ==
  LET events == PageOf(list, p) IN
  IF events = <<>> THEN [st |-> st, requests |-> p]
  ELSE DrainUntilEmpty(list, username, p + 1, ScanFrom(events, username, st))

\* C15: when the fetch of a user whose events the server holds as a finite
\* list, served in full pages until exhaustion, returns without a failed
\* request, it returns what the fetch that stops at the empty page only returns
\* on that list, and it has issued no more requests than that fetch.
C15_ShortExitEquivalent ==
  (pc = "store" /\ last_req.status = "ok") =>
    LET ref == DrainUntilEmpty(held, user_list.l[ui].username, 1,
                               Locals(0, MinDateTime, NA, <<>>, FALSE))
    IN /\ ret = ReturnValue(ref.st)
       /\ Len(requested) <= ref.requests
       /\ Len(held) % EVENTS_PER_PAGE # 0 => Len(requested) = ref.requests - 1

\* C15 witness: a last-push fetch over a full page and a tail of one more
\* push returned after two requests, one fewer than the reference
C15_Witness ==
  /\ pc = "store" /\ last_req.status = "ok"
  /\ script \in LastScripts
  /\ Len(held) = EVENTS_PER_PAGE + 1
  /\ held[1] = PushB /\ held[EVENTS_PER_PAGE + 1] = PushA
  /\ Len(requested) = 2
  /\ ret.count = 2 /\ ret.last_commit = JStr("c2")

\* C15 second case: the list ends on a page boundary, and the fetch asks for
\* the empty page too
C15_Boundary ==
  /\ pc = "store" /\ last_req.status = "ok"
  /\ Len(held) = EVENTS_PER_PAGE
  /\ Len(requested) = 2
  /\ served[2] = <<>>

\* a project listing that ended at an empty page, no request failed
ProjectsListed ==
  /\ last_req.ep = "projects" /\ last_req.status = "ok"
  /\ pc \in {"projects_report", "done"}
  /\ served # <<>> /\ served[Len(served)] = <<>>
\* an unfiltered user listing that ended at an empty page, no request failed
UsersListed ==
  /\ script # UserActivityByEmail
  /\ last_req.ep = "users" /\ last_req.status = "ok"
  /\ user_list.t = "list"
\* the entry get_all_users makes of a user record
UserEntryOf(user) == [id |-> user.id, username |-> user.username, email |-> EmailMissing]

\* C16 as stated: the list returned by an error-free project or unfiltered
\* user listing has one entry per record of the pages fetched, in page order,
\* whatever the record holds.
C16_OneEntryPerRecord ==
  /\ ProjectsListed =>
       LET records == Flatten(served) IN
       /\ Len(all_project_ids) = Total(served)
       /\ \A i \in 1..Len(all_project_ids) : all_project_ids[i].name = records[i].path_with_namespace
  /\ UsersListed =>
       LET records == Flatten(served) IN
       /\ Len(user_list.l) = Total(served)
       /\ \A i \in 1..Len(user_list.l) : user_list.l[i] = UserEntryOf(records[i])

\* C16 amended: the user listing has one entry per record, in page order; the
\* project listing has one entry per record that carries an id other than 0,
\* in page order, and none for a record whose id is absent or 0.
C16_OneEntryPerIdentifiedRecord ==
  /\ ProjectsListed =>
       /\ all_project_ids = KeptOf(Flatten(served))
       /\ Len(all_project_ids)
            = Total(served) - Cardinality({i \in 1..Total(served) :
                                             ~(Flatten(served)[i].id.t = "int"
                                               /\ Flatten(served)[i].id.n # 0)})
  /\ UsersListed =>
       LET records == Flatten(served) IN
       /\ Len(user_list.l) = Total(served)
       /\ \A i \in 1..Len(user_list.l) : user_list.l[i] = UserEntryOf(records[i])

\* C16 witness: a project listing of two pages, one record with an id and one
\* with id 0 or none, ended at the empty page with one entry
C16_Witness ==
  /\ ProjectsListed
  /\ Len(served) = 3
  /\ Total(served) = 2
  /\ Len(all_project_ids) = 1
  /\ pc = "done" /\ printed.total = 1

\* C16 second case: a user listing of two pages returned both records
C16_UsersWitness ==
  /\ UsersListed
  /\ Len(served) = 3
  /\ Len(user_list.l) = 2

\* C17: every page loop ends: the project listing, the user listing and the
\* event fetch of each user return, whatever requests fail; the for loop over
\* the users reaches the summary; every run ends.
C17_LoopsTerminate ==
  /\ (pc = "get_all_project_ids") ~> (pc = "projects_report")
  /\ (pc = "get_all_users") ~> (pc = "main_check")
  /\ (pc = "events") ~> (pc = "store")
  /\ (pc = "for_user") ~> (pc = "report")
  /\ <>(pc = "done")

\* C17 witness: a run of two users, the event fetch of the first over a full
\* page and one more, that of the second ended by a failed request, printed
\* its summary and ended
C17_Witness ==
  /\ pc = "done" /\ printed.msg = "summary"
  /\ Len(returned) = 2 /\ returned[1] > EVENTS_PER_PAGE
  /\ last_req = Req("events", 2, 2, "error")
  /\ Len(requested) >= 6

====
